---- MODULE Spec2Model ----
(***************************************************************************)
(* Model of "Лабараторная работа 1/task1.py": BitNumber (bit vector),      *)
(* GFNumber (polynomial over GF(2)) and GF8Number (element of GF(2^8)).    *)
(*                                                                         *)
(* Objects live in a heap (a sequence; an object's identity is its index). *)
(* A BitNumber has no method that assigns its fields after __init__, so a  *)
(* GFNumber's _number field holds the BitNumber as a value.  GFNumber and  *)
(* GF8Number objects are mutable (GF8Number.__shrink assigns _number and   *)
(* _len), so every operation takes the heap and returns the heap it leaves.*)
(* Python ints are unbounded; the model's stay below 2^31.                 *)
(***************************************************************************)
EXTENDS Integers, Sequences, FiniteSets, TLC

VARIABLES heap, call

vars == <<heap, call>>

(***************************************************************************)
(* Bounds of the exploration.                                              *)
(***************************************************************************)
MaxObjs == 3
MaxOperand == 255
MaxOther == 63
MaxWide == 16383
MaxShift == 9
MaxProductBits == 20

\* integer operands of the object-level state machine
Samples == {0, 3, 16, 300}

(***************************************************************************)
(* Python int operators.                                                   *)
(***************************************************************************)
RECURSIVE Pow2(_)
Pow2(n) == IF n = 0 THEN 1 ELSE 2 * Pow2(n - 1)

RECURSIVE IntXor(_, _)
IntXor(a, b) ==
    IF a = 0 THEN b
    ELSE IF b = 0 THEN a
    ELSE (((a % 2) + (b % 2)) % 2) + 2 * IntXor(a \div 2, b \div 2)

RECURSIVE BinDigits(_)
BinDigits(n) ==
    IF n < 2 THEN (IF n = 0 THEN "0" ELSE "1")
    ELSE BinDigits(n \div 2) \o (IF n % 2 = 0 THEN "0" ELSE "1")

\* bin(n): "0b" followed by the binary digits, "0b0" for 0
PyBin(n) == "0b" \o BinDigits(n)

HexDigit(d) ==
    CASE d = 0 -> "0" [] d = 1 -> "1" [] d = 2 -> "2" [] d = 3 -> "3"
      [] d = 4 -> "4" [] d = 5 -> "5" [] d = 6 -> "6" [] d = 7 -> "7"
      [] d = 8 -> "8" [] d = 9 -> "9" [] d = 10 -> "a" [] d = 11 -> "b"
      [] d = 12 -> "c" [] d = 13 -> "d" [] d = 14 -> "e" [] d = 15 -> "f"

RECURSIVE HexDigits(_)
HexDigits(n) ==
    IF n < 16 THEN HexDigit(n)
    ELSE HexDigits(n \div 16) \o HexDigit(n % 16)

\* hex(n): "0x" followed by the lowercase hexadecimal digits
PyHex(n) == "0x" \o HexDigits(n)

DecDigit(d) == HexDigit(d)

RECURSIVE PyStrInt(_)
\* str(n) of a non-negative int, as the f-string of GFNumber.__str__ formats it
PyStrInt(n) ==
    IF n < 10 THEN DecDigit(n)
    ELSE PyStrInt(n \div 10) \o DecDigit(n % 10)

RECURSIVE RJust(_, _, _)
\* str.rjust(width, fill)
RJust(s, width, fill) ==
    IF Len(s) >= width THEN s ELSE RJust(fill \o s, width, fill)

\* s[2:]
Drop2(s) == SubSeq(s, 3, Len(s))

(***************************************************************************)
(* Outcomes of a call: it returns (status "ok") or raises.                 *)
(***************************************************************************)
Ok(h, r) == [heap |-> h, status |-> "ok", msg |-> "", ret |-> r]

\* assert_value: raise ValueError(f"Assertion failed: {condition_as_string}")
Raise(h, m) == [heap |-> h, status |-> "ValueError", msg |-> m, ret |-> 0]

IndexMsg == "0 <= index < len(self)"
ShrunkMsg == "shrunk == False"

\* arguments: a plain int, a BitNumber value, or a reference to a heap object
IntArg(n) == [kind |-> "int", v |-> n]
BitsArg(x) == [kind |-> "bits", v |-> x]
RefArg(i) == [kind |-> "ref", v |-> i]

(***************************************************************************)
(* class BitNumber                                                         *)
(***************************************************************************)
\* BitNumber.__init__ from an int (inputs are ints >= 0, so the two
\* assertions of lines 39-40 pass): __len = len(bin(number)[2:])
BitNumber(n) ==
    [cls |-> "BitNumber", number |-> n, len |-> Len(Drop2(PyBin(n)))]

\* BitNumber.__init__ from a BitNumber: both fields are copied
BitNumberCopy(x) ==
    [cls |-> "BitNumber", number |-> x.number, len |-> x.len]

\* BitNumber(arg) for an int or a BitNumber argument
BitNumberOf(arg) ==
    IF arg.kind = "int" THEN BitNumber(arg.v) ELSE BitNumberCopy(arg.v)

\* BitNumber.__xor__
BitXor(self, other) ==
    LET o == BitNumberOf(other)
    IN  BitNumber(IntXor(self.number, o.number))

\* BitNumber.__rshift__
BitRShift(self, num) == BitNumber(self.number \div Pow2(num))

\* BitNumber.__lshift__
BitLShift(self, num) == BitNumber(self.number * Pow2(num))

\* BitNumber.__len__
BitLen(self) == self.len

\* BitNumber.__getitem__: [status, msg, val]
BitGetItem(self, index) ==
    IF 0 <= index /\ index < BitLen(self)
    THEN [status |-> "ok", msg |-> "", val |-> (self.number \div Pow2(index)) % 2]
    ELSE [status |-> "ValueError", msg |-> IndexMsg, val |-> 0]

\* BitNumber.__iter__: the bits self[0], ..., self[len(self) - 1]
BitIter(self) == [k \in 1..BitLen(self) |-> BitGetItem(self, k - 1).val]

\* BitNumber.__int__
BitInt(self) == self.number

\* BitNumber.__hex__
BitHex(self) == Drop2(PyHex(self.number))

\* BitNumber.__str__
BitStr(self) == Drop2(PyBin(self.number))

(***************************************************************************)
(* class GFNumber: objects [cls, number (_number), len (_len)]             *)
(***************************************************************************)
IsGF(o) == o.cls \in {"GFNumber", "GF8Number"}

\* an argument as the callee sees it: a reference becomes the object
Deref(h, arg) ==
    IF arg.kind = "ref"
    THEN (IF IsGF(h[arg.v]) THEN [kind |-> "gf", v |-> h[arg.v]]
          ELSE BitsArg(h[arg.v]))
    ELSE arg

\* the fields GFNumber.__init__ sets on the object under construction
GFFields(h, src) ==
    LET a == Deref(h, src)
    IN  IF a.kind = "gf"
        THEN LET n == BitNumberCopy(a.v.number)
             IN  [number |-> n, len |-> BitLen(n)]
        ELSE LET n0 == IF a.kind = "int" THEN BitNumber(a.v) ELSE a.v
                 n  == BitNumberCopy(n0)
             IN  [number |-> n, len |-> BitLen(n)]

\* object creation: cls.__new__ at the next free address, then the fields
\* of GFNumber.__init__
NewObject(h, cls, src) ==
    LET f == GFFields(h, src)
    IN  Append(h, [cls |-> cls, number |-> f.number, len |-> f.len])

\* GFNumber(src); ret is the address of the new object
GFNumberInit(h, src) == Ok(NewObject(h, "GFNumber", src), Len(h) + 1)

\* GFNumber.__add__
GFNumberAdd(h, self, other) ==
    LET o == GFNumberInit(h, other)
    IN  GFNumberInit(o.heap,
            BitsArg(BitXor(o.heap[self].number, BitsArg(o.heap[o.ret].number))))

RECURSIVE MulLoopFromOne(_, _, _, _)
\* MulLoop with the positions counted from 1 (enumerate(..., 1))
MulLoopFromOne(selfNumber, bits, index, result_number) ==
    IF index >= Len(bits) THEN result_number
    ELSE MulLoopFromOne(selfNumber, bits, index + 1,
            IF bits[index + 1] # 0
            THEN BitXor(result_number, BitsArg(BitLShift(selfNumber, index + 1)))
            ELSE result_number)

RECURSIVE MulLoop(_, _, _, _)
\* the loop of GFNumber.__mul__ from position index on: bits is
\* list(other._number), index counts from 0
MulLoop(selfNumber, bits, index, result_number) ==
    IF index >= Len(bits) THEN result_number
    ELSE MulLoop(selfNumber, bits, index + 1,
            IF bits[index + 1] # 0
            THEN BitXor(result_number, BitsArg(BitLShift(selfNumber, index)))
            ELSE result_number)

\* GFNumber.__mul__ (also bound as GFNumber.__rmul__)
GFNumberMul(h, self, other) ==
    LET o == GFNumberInit(h, other)
        result_number == MulLoop(o.heap[self].number,
                                 BitIter(o.heap[o.ret].number), 0, BitNumber(0))
    IN  GFNumberInit(o.heap, BitsArg(result_number))

\* GFNumber.__len__
GFLen(o) == o.len

\* GFNumber.__getitem__
GFGetItem(o, index) == BitGetItem(o.number, index)

\* GFNumber.__int__
GFInt(o) == BitInt(o.number)

RECURSIVE StrLoop(_, _, _, _)
\* the loop of GFNumber.__str__ from position i on
StrLoop(bits, i, print_num, str_) ==
    IF i >= Len(bits) THEN str_
    ELSE IF bits[i + 1] # 0
         THEN LET s1 == IF print_num # 0 THEN " + " \o str_ ELSE str_
                  s2 == IF i # 0
                        THEN ("x" \o (IF i = 1 THEN "" ELSE PyStrInt(i))) \o s1
                        ELSE "1" \o s1
              IN  StrLoop(bits, i + 1, print_num + 1, s2)
         ELSE StrLoop(bits, i + 1, print_num, str_)

\* GFNumber.__str__
GFStr(o) == StrLoop(BitIter(o.number), 0, 0, "")

\* GFNumber.__hex__(prefix)
GFHex(o, prefix) == prefix \o BitHex(o.number)

(***************************************************************************)
(* class GF8Number(GFNumber)                                               *)
(***************************************************************************)
MAX_BITS == 8
\* the modulus with bits 1 and 2 exchanged (0b100011101)
SHRINK_MODULO_Swapped == BitNumber(285)

SHRINK_MODULO == BitNumber(283)    \* 0b100011011

RECURSIVE ShrinkLoop(_, _, _)
\* the loop of GF8Number.__shrink from position i down to MAX_BITS, and the
\* assignment of _len that follows it; self[i] is GFNumber.__getitem__ on
\* the current _number
ShrinkLoop(h, self, i) ==
    IF i < MAX_BITS
    THEN Ok([h EXCEPT ![self].len = BitLen(h[self].number)], TRUE)
    ELSE LET g == GFGetItem(h[self], i)
         IN  IF g.status # "ok" THEN Raise(h, g.msg)
             ELSE IF g.val # 0
                  THEN ShrinkLoop(
                         [h EXCEPT ![self].number =
                             BitXor(@, BitsArg(BitLShift(SHRINK_MODULO, i - MAX_BITS)))],
                         self, i - 1)
                  ELSE ShrinkLoop(h, self, i - 1)

\* GF8Number.__shrink: ret is "a transformation was required"
GF8Shrink(h, self) ==
    IF GFLen(h[self]) <= MAX_BITS THEN Ok(h, FALSE)
    ELSE ShrinkLoop(h, self, GFLen(h[self]) - 1)

\* GF8Number.__init__ after __shrink returned or raised (lines 394-395):
\* shrunk is the outcome of self.__shrink()
AssertShrunk(shrunk, self, assert_shrunk) ==
    IF shrunk.status # "ok" THEN shrunk
    ELSE IF assert_shrunk /\ shrunk.ret # FALSE
         THEN Raise(shrunk.heap, ShrunkMsg)
         ELSE Ok(shrunk.heap, self)

\* GF8Number(src, assert_shrunk); ret is the address of the new object
GF8NumberInit(h, src, assert_shrunk) ==
    AssertShrunk(GF8Shrink(NewObject(h, "GF8Number", src), Len(h) + 1),
                 Len(h) + 1, assert_shrunk)

\* GF8Number.__mul__, line 427 on: result is the outcome of
\* GF8Number(super().__mul__(other))
ShrinkResult(result) ==
    IF result.status # "ok" THEN result
    ELSE LET s == GF8Shrink(result.heap, result.ret)
         IN  IF s.status # "ok" THEN s ELSE Ok(s.heap, result.ret)

\* GF8Number.__mul__, line 426 on: product is the outcome of
\* super().__mul__(other)
WrapProduct(product) ==
    ShrinkResult(GF8NumberInit(product.heap, RefArg(product.ret), FALSE))

\* the outcome r of building the result, stored into self instead of
\* being returned as a new object
StoreInSelf(self, r) ==
    IF r.status # "ok" THEN r
    ELSE Ok([r.heap EXCEPT ![self] = r.heap[r.ret]], self)

\* MulShrunk as an in-place multiplication: self takes the product
MulShrunkInPlace(self, o) ==
    IF o.status # "ok" THEN o
    ELSE StoreInSelf(self, WrapProduct(GFNumberMul(o.heap, self, RefArg(o.ret))))

\* GF8Number.__mul__, line 426 on: o is the outcome of
\* GF8Number(other, assert_shrunk=True)
MulShrunk(self, o) ==
    IF o.status # "ok" THEN o
    ELSE WrapProduct(GFNumberMul(o.heap, self, RefArg(o.ret)))

\* GF8Number.__mul__
GF8NumberMul(h, self, other) ==
    MulShrunk(self, GF8NumberInit(h, other, TRUE))

\* GF8Number.__hex__(prefix)
GF8Hex(o, prefix) == prefix \o RJust(BitHex(o.number), MAX_BITS \div 4, "0")

\* method resolution: GF8Number overrides __mul__; __rmul__ is the class
\* attribute GFNumber sets at line 268, the function GFNumber.__mul__
MulOf(h, self, other) ==
    IF h[self].cls = "GF8Number" THEN GF8NumberMul(h, self, other)
    ELSE GFNumberMul(h, self, other)

RMulOf(h, self, other) == GFNumberMul(h, self, other)

(***************************************************************************)
(* The caller's view of a call on heap h0 with outcome r: the objects that *)
(* existed before the call, as the call left them, and the object that was *)
(* returned; temporaries and objects whose construction raised are dropped.*)
(***************************************************************************)
Collect(h0, r) ==
    LET old == SubSeq(r.heap, 1, Len(h0))
    IN  IF r.status = "ok" THEN Append(old, r.heap[r.ret]) ELSE old

Returned(op, args, r) ==
    /\ heap' = Collect(heap, r)
    /\ call' = [op |-> op, args |-> args, status |-> r.status, msg |-> r.msg,
                ret |-> IF r.status = "ok" THEN Len(heap) + 1 ELSE 0]

NoCall(op, args) ==
    [op |-> op, args |-> args, status |-> "ok", msg |-> "", ret |-> 0]

(***************************************************************************)
(* Object-level state machine: a program that creates field elements and   *)
(* adds and multiplies them, keeping every returned object.                *)
(***************************************************************************)
Operands(h) == {IntArg(v) : v \in Samples} \cup {RefArg(i) : i \in 1..Len(h)}

\* bit length of an operand (bounds the size of products)
OperandLen(h, arg) ==
    IF arg.kind = "int" THEN BitLen(BitNumber(arg.v)) ELSE h[arg.v].len

Init ==
    /\ heap = <<>>
    /\ call = NoCall("none", <<>>)

NewGFNumber ==
    /\ Len(heap) < MaxObjs
    /\ \E src \in Operands(heap) :
          Returned("GFNumber", <<src>>, GFNumberInit(heap, src))

NewGF8Number ==
    /\ Len(heap) < MaxObjs
    /\ \E src \in Operands(heap), assert_shrunk \in BOOLEAN :
          Returned("GF8Number", <<src, assert_shrunk>>,
                   GF8NumberInit(heap, src, assert_shrunk))

Add ==
    /\ Len(heap) < MaxObjs
    /\ \E self \in 1..Len(heap), other \in Operands(heap) :
          Returned("__add__", <<RefArg(self), other>>,
                   GFNumberAdd(heap, self, other))

Mul ==
    /\ Len(heap) < MaxObjs
    /\ \E self \in 1..Len(heap), other \in Operands(heap) :
          /\ heap[self].len + OperandLen(heap, other) <= MaxProductBits
          /\ Returned("__mul__", <<RefArg(self), other>>,
                      MulOf(heap, self, other))

\* v * heap[self] for a plain int v: int.__mul__ returns NotImplemented and
\* Python calls heap[self].__rmul__(v)
RMul ==
    /\ Len(heap) < MaxObjs
    /\ \E self \in 1..Len(heap), v \in Samples :
          /\ heap[self].len + OperandLen(heap, IntArg(v)) <= MaxProductBits
          /\ Returned("__rmul__", <<RefArg(self), IntArg(v)>>,
                      RMulOf(heap, self, IntArg(v)))

Next == NewGFNumber \/ NewGF8Number \/ Add \/ Mul \/ RMul

Spec == Init /\ [][Next]_vars

(***************************************************************************)
(* Input sweep: the initial state draws two ints a and b, and each action  *)
(* evaluates one expression on them, starting from an empty heap.  Unary   *)
(* expressions use a alone and run on the inputs with b = 0; only those    *)
(* take a above MaxOperand.                                                *)
(***************************************************************************)
InitArith ==
    /\ heap = <<>>
    /\ \E a \in 0..MaxWide, b \in 0..MaxOther :
          /\ (a <= MaxOperand \/ b = 0)
          /\ call = NoCall("input", <<a, b>>)

InA == call.args[1]
InB == call.args[2]
Binary == call.op = "input" /\ InA <= MaxOperand
Unary == call.op = "input" /\ InB = 0

\* the receiver built on the empty heap, as the caller holds it
Receiver(recv) == Collect(<<>>, recv)

\* recv.method(...): recv is the outcome of building the receiver on the
\* empty heap, r the outcome of the method on Receiver(recv); the method
\* runs only when the receiver was built
OnReceiver(op, recv, r) ==
    IF recv.status # "ok"
    THEN /\ heap' = <<>>
         /\ call' = [op |-> op, args |-> call.args, status |-> recv.status,
                     msg |-> recv.msg, ret |-> 0]
    ELSE /\ heap' = Collect(Receiver(recv), r)
         /\ call' = [op |-> op, args |-> call.args, status |-> r.status,
                     msg |-> r.msg, ret |-> IF r.status = "ok" THEN 2 ELSE 0]

\* BitNumber(a) ^ b
ApplyBitXor ==
    /\ Binary
    /\ heap' = <<BitNumber(InA), BitXor(BitNumber(InA), IntArg(InB))>>
    /\ call' = [call EXCEPT !.op = "BitNumber.__xor__", !.ret = 2]

\* (BitNumber(a) ^ b) ^ b
ApplyBitXorAgain ==
    /\ call.op = "BitNumber.__xor__"
    /\ heap' = Append(heap, BitXor(heap[2], IntArg(InB)))
    /\ call' = [call EXCEPT !.op = "BitNumber.__xor__ twice", !.ret = 3]

\* BitNumber(a) >> b
ApplyBitRShift ==
    /\ Binary
    /\ InB <= MaxShift
    /\ heap' = <<BitNumber(InA), BitRShift(BitNumber(InA), InB)>>
    /\ call' = [call EXCEPT !.op = "BitNumber.__rshift__", !.ret = 2]

\* BitNumber(a) << b
ApplyBitLShift ==
    /\ Binary
    /\ InB <= MaxShift
    /\ heap' = <<BitNumber(InA), BitLShift(BitNumber(InA), InB)>>
    /\ call' = [call EXCEPT !.op = "BitNumber.__lshift__", !.ret = 2]

\* BitNumber(a)[b]; ret is the bit
ApplyBitGetItem ==
    /\ Binary
    /\ LET g == BitGetItem(BitNumber(InA), InB)
       IN  /\ heap' = <<BitNumber(InA)>>
           /\ call' = [op |-> "BitNumber.__getitem__", args |-> call.args,
                       status |-> g.status, msg |-> g.msg, ret |-> g.val]

\* list(BitNumber(a)); ret is the list
ApplyBitIter ==
    /\ Unary
    /\ InA <= MaxOperand
    /\ heap' = <<BitNumber(InA)>>
    /\ call' = [call EXCEPT !.op = "BitNumber.__iter__",
                            !.ret = BitIter(BitNumber(InA))]

\* GF8Number(a, assert_shrunk)
ApplyGF8NumberInit ==
    /\ Unary
    /\ \E assert_shrunk \in BOOLEAN :
          LET r == GF8NumberInit(<<>>, IntArg(InA), assert_shrunk)
          IN  /\ heap' = Collect(<<>>, r)
              /\ call' = [op |-> IF assert_shrunk THEN "GF8Number strict"
                                                  ELSE "GF8Number",
                          args |-> call.args, status |-> r.status,
                          msg |-> r.msg,
                          ret |-> IF r.status = "ok" THEN 1 ELSE 0]

\* GFNumber(a) * b
ApplyGFMul ==
    /\ Binary
    /\ LET recv == GFNumberInit(<<>>, IntArg(InA))
       IN  OnReceiver("GFNumber * int", recv,
                      MulOf(Receiver(recv), 1, IntArg(InB)))

\* GFNumber(a) + b
ApplyGFAdd ==
    /\ Binary
    /\ LET recv == GFNumberInit(<<>>, IntArg(InA))
       IN  OnReceiver("GFNumber + int", recv,
                      GFNumberAdd(Receiver(recv), 1, IntArg(InB)))

\* GF8Number(a) * b
ApplyGF8Mul ==
    /\ Binary
    /\ LET recv == GF8NumberInit(<<>>, IntArg(InA), FALSE)
       IN  OnReceiver("GF8Number * int", recv,
                      MulOf(Receiver(recv), 1, IntArg(InB)))

\* b * GF8Number(a)
ApplyGF8RMul ==
    /\ Binary
    /\ LET recv == GF8NumberInit(<<>>, IntArg(InA), FALSE)
       IN  OnReceiver("int * GF8Number", recv,
                      RMulOf(Receiver(recv), 1, IntArg(InB)))

NextArith ==
    \/ ApplyBitXor \/ ApplyBitXorAgain \/ ApplyBitRShift \/ ApplyBitLShift
    \/ ApplyBitGetItem \/ ApplyBitIter \/ ApplyGF8NumberInit
    \/ ApplyGFMul \/ ApplyGFAdd \/ ApplyGF8Mul \/ ApplyGF8RMul

SpecArith == InitArith /\ [][NextArith]_vars

(***************************************************************************)
(* Reference definitions of the specification's terms, independent of the  *)
(* operators that model the code.                                          *)
(***************************************************************************)
\* coefficient of x^i in the polynomial n
Coeff(n, i) == (n \div Pow2(i)) % 2

RECURSIVE BitWidth(_)
\* number of bits needed to represent n: 0 for 0, no leading zeros
BitWidth(n) == IF n = 0 THEN 0 ELSE 1 + BitWidth(n \div 2)

\* coefficient of x^k in the product of the polynomials a and b over GF(2)
ProductCoeff(a, b, k) ==
    Cardinality({i \in 0..k : Coeff(b, i) = 1 /\ Coeff(a, k - i) = 1}) % 2

RECURSIVE ProductUpTo(_, _, _)
ProductUpTo(a, b, k) ==
    IF k < 0 THEN 0
    ELSE ProductCoeff(a, b, k) * Pow2(k) + ProductUpTo(a, b, k - 1)

\* the product of a and b as polynomials over GF(2): the XOR, over the set
\* bits i of b, of a shifted left by i
PolyProduct(a, b) == ProductUpTo(a, b, BitWidth(a) + BitWidth(b))

RECURSIVE PolyRemainder(_)
\* remainder of v divided, as a polynomial over GF(2), by 0b100011011
PolyRemainder(v) ==
    IF BitWidth(v) <= 8 THEN v
    ELSE PolyRemainder(IntXor(v, 283 * Pow2(BitWidth(v) - 9)))

FieldSize == Pow2(MAX_BITS)

\* the object the last call returned, and its integer value
Result == heap[call.ret]
ResultInt == GFInt(Result)

\* GF8Number(a) * b evaluated on the empty heap: [status, msg, value]
DirectMul(a, b) ==
    LET recv == GF8NumberInit(<<>>, IntArg(a), FALSE)
        r == MulOf(Receiver(recv), 1, IntArg(b))
    IN  IF recv.status # "ok"
        THEN [status |-> recv.status, msg |-> recv.msg, value |-> 0]
        ELSE [status |-> r.status, msg |-> r.msg,
              value |-> IF r.status = "ok" THEN GFInt(r.heap[r.ret]) ELSE 0]

\* GFNumber(a) * b evaluated on the empty heap: the integer value
DirectGFMul(a, b) ==
    LET recv == GFNumberInit(<<>>, IntArg(a))
        r == MulOf(Receiver(recv), 1, IntArg(b))
    IN  GFInt(r.heap[r.ret])

(***************************************************************************)
(* Claims                                                                  *)
(***************************************************************************)

\* C1: for all a, b in 0..255, GF8Number(a) * b returns (does not raise) an
\* element whose length is <= 8 and whose integer value is < 256.
C1_MulFitsField ==
    (call.op = "GF8Number * int" /\ InA < FieldSize /\ InB < FieldSize)
        => /\ call.status = "ok"
           /\ GFLen(Result) <= MAX_BITS
           /\ ResultInt < FieldSize

\* C2: for every v of at most 16 bits, GF8Number(v) succeeds and its value
\* is the remainder of v modulo 0b100011011: one descending pass of the
\* reduction loop brings v below 9 bits.
C2_InitIsRemainder ==
    call.op = "GF8Number"
        => /\ call.status = "ok"
           /\ ResultInt = PolyRemainder(InA)
           /\ GFLen(Result) <= MAX_BITS

\* C3: a BitNumber of value 0 (constructed from 0, or produced by v ^ v or
\* by a right shift past the top bit) has length 0, iterates over no bits,
\* and raises on every index, 0 included.
C3_ZeroVectorEmpty ==
    \A i \in 1..Len(heap) :
        (heap[i].cls = "BitNumber" /\ BitInt(heap[i]) = 0)
            => /\ BitLen(heap[i]) = 0
               /\ BitIter(heap[i]) = <<>>
               /\ \A k \in 0..MaxShift : BitGetItem(heap[i], k).status = "ValueError"

\* C4: GF8Number(v, assert_shrunk=True) raises, from the strict check
\* ("shrunk == False"), exactly when v >= 256; for v in 0..255 it succeeds
\* with value v.
C4_StrictRaisesIffWide ==
    call.op = "GF8Number strict"
        => IF InA >= FieldSize
           THEN call.status = "ValueError" /\ call.msg = ShrunkMsg
           ELSE call.status = "ok" /\ ResultInt = InA

\* C5: for all a, b in 0..255, GF8Number(a) * b and GF8Number(b) * a both
\* return elements, with the same integer value.
C5_Mul8Commutes ==
    (call.op = "GF8Number * int" /\ InA < FieldSize /\ InB < FieldSize)
        => /\ call.status = "ok"
           /\ DirectMul(InB, InA).status = "ok"
           /\ DirectMul(InB, InA).value = ResultInt

\* C6 (as amended): GF8Number(175) * 3 is the polynomial
\* x7 + x6 + x5 + x3 + x, and its 2-digit hex rendering is "ea" (0xea).
C6_Mul175By3 ==
    (call.op = "GF8Number * int" /\ InA = 175 /\ InB = 3)
        => /\ call.status = "ok"
           /\ GFStr(Result) = "x7 + x6 + x5 + x3 + x"
           /\ GF8Hex(Result, "") = "ea"
           /\ ResultInt = 234

\* C6 as stated: the same polynomial, with hex rendering "ae" (0xae).
C6_AsStated ==
    (call.op = "GF8Number * int" /\ InA = 175 /\ InB = 3)
        => /\ call.status = "ok"
           /\ GFStr(Result) = "x7 + x6 + x5 + x3 + x"
           /\ GF8Hex(Result, "") = "ae"
           /\ ResultInt = 174

C6_Witness ==
    /\ call.op = "GF8Number * int" /\ InA = 175 /\ InB = 3
    /\ call.status = "ok"
    /\ GFLen(heap[1]) = MAX_BITS /\ GFLen(Result) = MAX_BITS

\* C7: for all a, b >= 0 (0 included), GFNumber(a) * b and GFNumber(b) * a
\* have the same integer value, the XOR over the set bits i of b of a << i;
\* GFNumber(175) * 3 has value 0b111110001.
C7_GFMulCommutes ==
    call.op = "GFNumber * int"
        => /\ call.status = "ok"
           /\ ResultInt = PolyProduct(InA, InB)
           /\ ResultInt = DirectGFMul(InB, InA)
           /\ (InA = 175 /\ InB = 3) => ResultInt = 497

C7_Witness ==
    /\ call.op = "GFNumber * int" /\ InA = 175 /\ InB = 3
    /\ call.status = "ok"
    /\ ResultInt = 497

\* C8: for all a, b >= 0, (BitNumber(a) ^ b) ^ b has the value and the
\* length of BitNumber(a), and BitNumber(a) ^ b has the length that is the
\* bit width of a XOR b.
C8_XorSelfInverse ==
    call.op = "BitNumber.__xor__ twice"
        => /\ BitInt(heap[3]) = BitInt(heap[1])
           /\ BitLen(heap[3]) = BitLen(heap[1])
           /\ BitLen(heap[2]) = BitWidth(IntXor(InA, InB))

\* C9: every call of the object-level state machine (constructors, __add__,
\* __mul__, __rmul__, returning or raising) leaves every object that existed
\* before it unchanged (class, integer value, bit length, cached length), and
\* every object a call returned has a cached length equal to the length of
\* its bit vector; in-place reduction touches only the object being built.
C9_Immutable ==
    /\ [][\A i \in 1..Len(heap) : Len(heap') >= i /\ heap'[i] = heap[i]]_vars
    /\ [](\A i \in 1..Len(heap) :
            /\ GFLen(heap[i]) = BitLen(heap[i].number)
            /\ heap[i].cls = "GF8Number" => GFLen(heap[i]) <= MAX_BITS)

\* a GF8Number was built by reduction from an element of more than 8 bits,
\* which is still in the heap
C9_Witness ==
    /\ call.op = "GF8Number" /\ call.status = "ok"
    /\ call.args[1].kind = "ref"
    /\ GFLen(heap[call.args[1].v]) > MAX_BITS
    /\ GFLen(Result) <= MAX_BITS
    /\ ResultInt # GFInt(heap[call.args[1].v])

\* C10: for all a, b in 0..255, b * GF8Number(a) returns a result with the
\* integer value of GF8Number(a) * b, and that value is < 256.
C10_RMulAgrees ==
    (call.op = "int * GF8Number" /\ InA < FieldSize /\ InB < FieldSize)
        => /\ call.status = "ok"
           /\ ResultInt < FieldSize
           /\ DirectMul(InA, InB).status = "ok"
           /\ DirectMul(InA, InB).value = ResultInt

====
